---------------------------- MODULE Spec2Model ----------------------------
(***************************************************************************)
(* HD44780toSerial.ino: the uSDX controller firmware.                      *)
(*                                                                         *)
(* One cooperative main loop (loop(), followed statement by statement by   *)
(* the program counter pc), two interrupt handlers (lcdActivityISR,        *)
(* usdxPowerDownISR) that may run between any two statements of the main   *)
(* loop, and the environment: the host's power-sense line, the display     *)
(* bus enable strobe, the serial receive queue and the millisecond clock.  *)
(*                                                                         *)
(* Accesses to the volatile indices are taken to be single atomic          *)
(* accesses ("atomic-width index types").  The buffer capacity and the     *)
(* width of the millisecond counter are scaled down (BufBits, MillisBits); *)
(* the index arithmetic and the time comparisons are those of the source.  *)
(***************************************************************************)
EXTENDS Integers, Sequences, FiniteSets, TLC

\* ------------------------------------------------------------ bounds
\* log2 of the capture buffer's capacity (1024 = 2^10 in the source)
BufBits == 2
\* width in bits of the wrapping millisecond counter (unsigned long: 32)
MillisBits == 3
\* display-bus strobes the environment produces in one behaviour
MaxCaptures == 5
\* gesture bytes the serial peer sends in one behaviour
MaxGestures == 2
\* edges of the host's power-sense line in one behaviour of SpecPower
MaxPowerEdges == 3

\* ------------------------------------------------------------ constants
BUFFER_SIZE == 2 ^ BufBits
BUFFER_INDEX_MASK == BUFFER_SIZE - 1
MillisModulus == 2 ^ MillisBits

ROT_A == 18
ROT_B == 19
RIGHT_BUTTON == 3
LEFT_BUTTON == 4
ENCODER_BUTTON == 5
PUSH_TO_TALK == 2
USDX_RESET == 13

PULSE_DURATION == 5

CLICK_LEFT_BUTTON == 1
CLICK_RIGHT_BUTTON == 2
CLICK_ENCODER_BUTTON == 3
ROTATE_ENCODER_CLOCKWISE == 4
ROTATE_ENCODER_COUNTERCLOCKWISE == 5
PUSH_TO_TALK_START == 6
PUSH_TO_TALK_END == 7
RESET_THE_USDX == 8

USDX_POWERED_UP == 255
USDX_POWERED_DOWN == 254

ENC_STATE_IDLE == 0
ENC_STATE_1 == 1
ENC_STATE_2 == 2
ENC_STATE_3 == 3

LOW == 0
HIGH == 1

\* The pins the emulators and setup() configure.
Pins == {ROT_A, ROT_B, RIGHT_BUTTON, LEFT_BUTTON, ENCODER_BUTTON, PUSH_TO_TALK, USDX_RESET}

\* Values PORTD.IN is sampled at: 0x41 ('A') and 0x27 (also the first byte of a control frame).
BusBytes == {65, 39}

\* Bytes the serial peer may send: the eight gestures and two values outside 1..8.
GestureBytes == 0 .. 9

\* The saturation value of the two ghost stopwatches.
AgeCap == PULSE_DURATION + 1

VARIABLES
  pc,                 \* the main loop's position (the line it executes next)
  usdxPowerOn,        \* volatile bool usdxPowerOn
  lcdBuffer,          \* volatile unsigned char lcdBuffer[BUFFER_SIZE]
  idxOfNextLcdWrite,
  idxOfNextLcdRead,
  gestureInProgress,
  timeOfClickStart,   \* Button::timeOfClickStart
  pinOfButtonClicked, \* Button::pinOfButtonClicked
  stateTime,          \* Encoder::stateTime
  state,              \* Encoder::state
  firstPin,           \* Encoder::firstPin
  secondPin,          \* Encoder::secondPin
  pinModeOf,          \* pin -> "INPUT" | "OUTPUT"
  pinLevel,           \* pin -> the level of its output latch
  led,                \* LED_BUILTIN
  lcdAttached,        \* the LCD_ENABLE interrupt is armed
  pwrAttached,        \* the LCD_POWER interrupt is armed
  powerLine,          \* the level of LCD_POWER
  now,                \* the value millis() returned when the program last read it
  rxQueue,            \* the serial receive queue
  serialOut,          \* every byte written with Serial.write, in order
  \* history variables
  outSrc,             \* per byte of serialOut: the capture it came from, 0 for a control byte
  ctrlLog,            \* the control messages sent, in order
  captured,           \* every byte lcdActivityISR sampled, in order
  slotSeq,            \* per buffer slot: the number of the capture it holds (0: none)
  ledRaises,          \* how often lcdActivityISR executed line 63
  laps,               \* how often a capture made the unread bytes reach BUFFER_SIZE
  resetMark,          \* Len(captured) at the last doUsdxReset
  resets,             \* how many doUsdxReset ran
  pressAge,           \* ms since Button::startClick, saturating at AgeCap
  phaseAge,           \* ms since the encoder entered its phase, saturating at AgeCap
  lcdLeft, rxLeft, pwrLeft, \* what is left of the environment's budgets
  peerBytes,          \* the byte values the serial peer uses
  maxAdvance          \* the most the clock advances between two calls of millis()

progVars == <<pc, usdxPowerOn, lcdBuffer, idxOfNextLcdWrite, idxOfNextLcdRead,
              gestureInProgress, timeOfClickStart, pinOfButtonClicked, stateTime,
              state, firstPin, secondPin, pinModeOf, pinLevel, led, lcdAttached,
              pwrAttached, powerLine, now, rxQueue, serialOut>>
histVars == <<outSrc, ctrlLog, captured, slotSeq, ledRaises, laps, resetMark, resets,
              pressAge, phaseAge, lcdLeft, rxLeft, pwrLeft, peerBytes, maxAdvance>>
vars == <<progVars, histVars>>

captureVars == <<lcdBuffer, idxOfNextLcdWrite, captured, slotSeq, ledRaises, laps>>
buttonVars == <<timeOfClickStart, pinOfButtonClicked, pressAge>>
encoderVars == <<stateTime, state, firstPin, secondPin, phaseAge>>
pinVars == <<pinModeOf, pinLevel>>
outVars == <<serialOut, outSrc, ctrlLog>>
envVars == <<powerLine, now, rxQueue, lcdLeft, rxLeft, pwrLeft, peerBytes, maxAdvance>>
irqVars == <<lcdAttached, pwrAttached>>
gestureVars == <<gestureInProgress, buttonVars, encoderVars, pinVars>>
ghostCapture == <<captured, slotSeq, ledRaises, laps, resetMark, resets>>
\* what the main loop's statements outside the gesture code never touch
loopFrame == <<powerLine, rxQueue, lcdLeft, rxLeft, pwrLeft, peerBytes, maxAdvance, lcdBuffer,
               idxOfNextLcdWrite, ghostCapture>>
mainFrame == <<loopFrame, now>>

\* ------------------------------------------------------------ arithmetic
RECURSIVE BitAnd(_, _)
BitAnd(a, b) ==
  IF a = 0 \/ b = 0 THEN 0
  ELSE (a % 2) * (b % 2) + 2 * BitAnd(a \div 2, b \div 2)

RECURSIVE BitOr(_, _)
BitOr(a, b) ==
  IF a = 0 THEN b
  ELSE IF b = 0 THEN a
  ELSE (IF a % 2 = 1 \/ b % 2 = 1 THEN 1 ELSE 0) + 2 * BitOr(a \div 2, b \div 2)

\* unsigned long arithmetic: sums and differences wrap at the counter's width
WrapAdd(a, b) == (a + b) % MillisModulus
WrapSub(a, b) == (a - b + MillisModulus) % MillisModulus

\* ------------------------------------------------------------ millis()
\* The clock runs freely; the program sees it only when it calls millis().  A statement
\* that reads the clock takes the step "the clock has advanced by some d since the last
\* read" (ClockRead), and millis is the value it then reads.  The two stopwatches
\* pressAge and phaseAge add up the d's, saturating at AgeCap.
millis == now'

ClockRead == \E d \in 0 .. maxAdvance : now' = WrapAdd(now, d)

ClockNotRead == now' = now

Aged(age) == IF age + WrapSub(now', now) < AgeCap THEN age + WrapSub(now', now) ELSE AgeCap

\* ------------------------------------------------------------ sendControlMessage
\* C11 mutant: line 48 shifting the address bits by 3
ControlByte1Shift3(msg) == BitOr(BitAnd(128, msg) \div 4, BitAnd(112, msg) \div 8)

ControlByte1(msg) == BitOr(BitAnd(128, msg) \div 4, BitAnd(112, msg) \div 16)
ControlByte2(msg) == BitOr(BitAnd(8, msg) * 4, BitAnd(7, msg))

sendControlMessage(msg) ==
  /\ serialOut' = serialOut \o <<ControlByte1(msg), ControlByte2(msg)>>
  /\ outSrc' = outSrc \o <<0, 0>>
  /\ ctrlLog' = Append(ctrlLog, msg)

\* ------------------------------------------------------------ interrupt handlers
\* how many slots lie between the read index and the write index
UnreadCount == BitAnd(idxOfNextLcdWrite - idxOfNextLcdRead + BUFFER_SIZE, BUFFER_INDEX_MASK)

usdxPowerDownISR ==
  usdxPowerOn' = FALSE

\* C3 mutant: the overflow test of line 62 made before the write index is advanced
lcdActivityISRTestFirst(portd) ==
  LET w == BitAnd(idxOfNextLcdWrite + 1, BUFFER_INDEX_MASK) IN
  /\ lcdBuffer' = [lcdBuffer EXCEPT ![idxOfNextLcdWrite] = portd]
  /\ idxOfNextLcdWrite' = w
  /\ captured' = Append(captured, portd)
  /\ slotSeq' = [slotSeq EXCEPT ![idxOfNextLcdWrite] = Len(captured) + 1]
  /\ laps' = IF UnreadCount = BUFFER_SIZE - 1 THEN laps + 1 ELSE laps
  /\ IF idxOfNextLcdWrite = idxOfNextLcdRead
       THEN led' = HIGH /\ ledRaises' = ledRaises + 1
       ELSE UNCHANGED <<led, ledRaises>>

lcdActivityISR(portd) ==
  LET w == BitAnd(idxOfNextLcdWrite + 1, BUFFER_INDEX_MASK) IN
  /\ lcdBuffer' = [lcdBuffer EXCEPT ![idxOfNextLcdWrite] = portd]
  /\ idxOfNextLcdWrite' = w
  /\ captured' = Append(captured, portd)
  /\ slotSeq' = [slotSeq EXCEPT ![idxOfNextLcdWrite] = Len(captured) + 1]
  /\ laps' = IF UnreadCount = BUFFER_SIZE - 1 THEN laps + 1 ELSE laps
  /\ IF w = idxOfNextLcdRead
       THEN led' = HIGH /\ ledRaises' = ledRaises + 1
       ELSE UNCHANGED <<led, ledRaises>>

\* ------------------------------------------------------------ namespace Button
clickInProgress == pinOfButtonClicked > 0

startClick(buttonPin, pushedState) ==
  /\ pinModeOf' = [pinModeOf EXCEPT ![buttonPin] = "OUTPUT"]
  /\ pinLevel' = [pinLevel EXCEPT ![buttonPin] = pushedState]
  /\ timeOfClickStart' = millis
  /\ pinOfButtonClicked' = buttonPin
  /\ pressAge' = 0

\* digitalRead of the clicked pin, an output: the level it is driven to
endClick ==
  LET newState == IF pinLevel[pinOfButtonClicked] = HIGH THEN LOW ELSE HIGH IN
  /\ pinLevel' = [pinLevel EXCEPT ![pinOfButtonClicked] = newState]
  /\ pinModeOf' = [pinModeOf EXCEPT ![pinOfButtonClicked] = "INPUT"]
  /\ timeOfClickStart' = 0
  /\ pinOfButtonClicked' = 0
  /\ pressAge' = 0
  /\ gestureInProgress' = FALSE

isTimeToEndClick == millis > WrapAdd(timeOfClickStart, PULSE_DURATION)

\* ------------------------------------------------------------ namespace Encoder
rotationInProgress == state # ENC_STATE_IDLE

\* called by startRotation right after it assigned firstPin
dropFirstPin ==
  /\ pinModeOf' = [pinModeOf EXCEPT ![firstPin'] = "OUTPUT"]
  /\ pinLevel' = [pinLevel EXCEPT ![firstPin'] = LOW]
  /\ state' = ENC_STATE_1
  /\ stateTime' = millis

\* C9 mutant: line 126 writing HIGH
dropSecondPinHigh ==
  /\ pinModeOf' = [pinModeOf EXCEPT ![secondPin] = "OUTPUT"]
  /\ pinLevel' = [pinLevel EXCEPT ![secondPin] = HIGH]
  /\ state' = ENC_STATE_2
  /\ stateTime' = millis

dropSecondPin ==
  /\ pinModeOf' = [pinModeOf EXCEPT ![secondPin] = "OUTPUT"]
  /\ pinLevel' = [pinLevel EXCEPT ![secondPin] = LOW]
  /\ state' = ENC_STATE_2
  /\ stateTime' = millis

raiseFirstPin ==
  /\ pinModeOf' = [pinModeOf EXCEPT ![firstPin] = "INPUT"]
  /\ pinLevel' = pinLevel
  /\ state' = ENC_STATE_3
  /\ stateTime' = millis

raiseSecondPin ==
  /\ pinModeOf' = [pinModeOf EXCEPT ![secondPin] = "INPUT"]
  /\ pinLevel' = pinLevel
  /\ state' = ENC_STATE_IDLE
  /\ stateTime' = millis

startRotation(_firstPin, _secondPin) ==
  /\ firstPin' = _firstPin
  /\ secondPin' = _secondPin
  /\ dropFirstPin
  /\ phaseAge' = 0

\* C8 mutant: line 150 off by one
phaseElapsedEarly == WrapSub(millis, stateTime) >= PULSE_DURATION - 1

\* line 150: millis() - stateTime < PULSE_DURATION is false
phaseElapsed == WrapSub(millis, stateTime) >= PULSE_DURATION

\* C20 mutant: Encoder::emulate clearing gestureInProgress one phase early (line 153)
EncoderEmulateClearsEarly ==
  IF ~phaseElapsed
    THEN /\ phaseAge' = Aged(phaseAge)
         /\ UNCHANGED <<stateTime, state, firstPin, secondPin, pinVars, gestureInProgress>>
  ELSE /\ phaseAge' = 0
       /\ UNCHANGED <<firstPin, secondPin>>
       /\ CASE state = ENC_STATE_1 -> dropSecondPin /\ UNCHANGED gestureInProgress
            [] state = ENC_STATE_2 -> raiseFirstPin /\ gestureInProgress' = FALSE
            [] state = ENC_STATE_3 -> raiseSecondPin /\ gestureInProgress' = FALSE

\* Encoder::emulate
EncoderEmulate ==
  IF ~phaseElapsed
    THEN /\ phaseAge' = Aged(phaseAge)
         /\ UNCHANGED <<stateTime, state, firstPin, secondPin, pinVars, gestureInProgress>>
  ELSE /\ phaseAge' = 0
       /\ UNCHANGED <<firstPin, secondPin>>
       /\ CASE state = ENC_STATE_1 -> dropSecondPin /\ UNCHANGED gestureInProgress
            [] state = ENC_STATE_2 -> raiseFirstPin /\ UNCHANGED gestureInProgress
            [] state = ENC_STATE_3 -> raiseSecondPin /\ gestureInProgress' = FALSE

\* Button::emulate
ButtonEmulate ==
  IF isTimeToEndClick THEN endClick
  ELSE /\ pressAge' = Aged(pressAge)
       /\ UNCHANGED <<timeOfClickStart, pinOfButtonClicked, pinVars, gestureInProgress>>

\* ------------------------------------------------------------ push-to-talk
\* C13 mutant: startPushToTalk without line 193
startPushToTalkKeepsFlag ==
  /\ pinModeOf' = [pinModeOf EXCEPT ![PUSH_TO_TALK] = "OUTPUT"]
  /\ pinLevel' = [pinLevel EXCEPT ![PUSH_TO_TALK] = LOW]
  /\ gestureInProgress' = TRUE

startPushToTalk ==
  /\ pinModeOf' = [pinModeOf EXCEPT ![PUSH_TO_TALK] = "OUTPUT"]
  /\ pinLevel' = [pinLevel EXCEPT ![PUSH_TO_TALK] = LOW]
  /\ gestureInProgress' = FALSE

endPushToTalk ==
  /\ pinModeOf' = [pinModeOf EXCEPT ![PUSH_TO_TALK] = "INPUT"]
  /\ pinLevel' = pinLevel
  /\ gestureInProgress' = FALSE

\* ------------------------------------------------------------ doUsdxReset
\* C12 mutant: doUsdxReset without lines 178-179
doUsdxResetKeepsIndices ==
  /\ led' = HIGH
  /\ lcdAttached' = FALSE
  /\ UNCHANGED <<idxOfNextLcdRead, idxOfNextLcdWrite>>
  /\ startClick(USDX_RESET, LOW)
  /\ resetMark' = Len(captured)
  /\ resets' = resets + 1
  /\ gestureInProgress' = TRUE
  /\ pc' = "L183"
  /\ UNCHANGED <<lcdBuffer, captured, slotSeq, ledRaises, laps, encoderVars, pwrAttached,
                 usdxPowerOn>>

\* lines 175-181: up to and including Button::startClick
doUsdxReset ==
  /\ led' = HIGH
  /\ lcdAttached' = FALSE
  /\ idxOfNextLcdRead' = 0
  /\ idxOfNextLcdWrite' = 0
  /\ startClick(USDX_RESET, LOW)
  /\ resetMark' = Len(captured)
  /\ resets' = resets + 1
  /\ gestureInProgress' = TRUE
  /\ pc' = "L183"
  /\ UNCHANGED <<lcdBuffer, captured, slotSeq, ledRaises, laps, encoderVars, pwrAttached,
                 usdxPowerOn>>

\* lines 182-183: delay(1), then Button::endClick
ResetRelease ==
  /\ pc = "L183"
  /\ ClockNotRead
  /\ endClick
  /\ pc' = "L186"
  /\ UNCHANGED <<usdxPowerOn, captureVars, idxOfNextLcdRead, encoderVars, led, irqVars,
                 powerLine, rxQueue, lcdLeft, rxLeft, pwrLeft, peerBytes, maxAdvance, outVars, resetMark, resets>>

\* lines 184-186: delay(1), then re-arm the display-bus interrupt
ResetRearm ==
  /\ pc = "L186"
  /\ ClockNotRead
  /\ lcdAttached' = TRUE
  /\ pc' = "L187"
  /\ UNCHANGED <<loopFrame, usdxPowerOn, idxOfNextLcdRead, gestureVars, pwrAttached, outVars,
                 led>>

\* line 187, and the return to line 278
ResetLedOff ==
  /\ pc = "L187"
  /\ ClockNotRead
  /\ led' = LOW
  /\ pc' = "L278"
  /\ UNCHANGED <<loopFrame, usdxPowerOn, idxOfNextLcdRead, gestureVars, irqVars, outVars>>

\* ------------------------------------------------------------ performInputGesture
\* every gesture but RESET_THE_USDX, which continues at doUsdxReset's later lines
performInputGesture(gesture) ==
  CASE gesture = CLICK_LEFT_BUTTON ->
         /\ gestureInProgress' = TRUE
         /\ startClick(LEFT_BUTTON, HIGH)
         /\ UNCHANGED encoderVars
    [] gesture = CLICK_RIGHT_BUTTON ->
         /\ gestureInProgress' = TRUE
         /\ startClick(RIGHT_BUTTON, HIGH)
         /\ UNCHANGED encoderVars
    [] gesture = CLICK_ENCODER_BUTTON ->
         /\ gestureInProgress' = TRUE
         /\ startClick(ENCODER_BUTTON, HIGH)
         /\ UNCHANGED encoderVars
    [] gesture = ROTATE_ENCODER_CLOCKWISE ->
         /\ gestureInProgress' = TRUE
         /\ startRotation(ROT_A, ROT_B)
         /\ UNCHANGED buttonVars
    [] gesture = ROTATE_ENCODER_COUNTERCLOCKWISE ->
         /\ gestureInProgress' = TRUE
         /\ startRotation(ROT_B, ROT_A)
         /\ UNCHANGED buttonVars
    [] gesture = PUSH_TO_TALK_START ->
         /\ startPushToTalk
         /\ UNCHANGED <<buttonVars, encoderVars>>
    [] gesture = PUSH_TO_TALK_END ->
         /\ endPushToTalk
         /\ UNCHANGED <<buttonVars, encoderVars>>
    [] OTHER ->
         /\ gestureInProgress' = TRUE
         /\ UNCHANGED <<buttonVars, encoderVars, pinVars>>

\* ------------------------------------------------------------ loop()


\* line 250, and line 251 when the power-sense pin reads LOW
CheckPower ==
  /\ pc = "L250"
  /\ IF powerLine = LOW
       THEN led' = HIGH /\ pc' = "L253"
       ELSE led' = led /\ pc' = "L261"
  /\ UNCHANGED <<mainFrame, usdxPowerOn, idxOfNextLcdRead, gestureVars, irqVars, outVars>>

\* lines 253-259: the busy wait ends when the pin reads HIGH; delay(100); PoweredUp; LED off
WaitPowerUp ==
  /\ pc = "L253"
  /\ powerLine = HIGH
  /\ sendControlMessage(USDX_POWERED_UP)
  /\ led' = LOW
  /\ pc' = "L261"
  /\ UNCHANGED <<mainFrame, usdxPowerOn, idxOfNextLcdRead, gestureVars, irqVars>>

\* line 261
SetPowerOn ==
  /\ pc = "L261"
  /\ usdxPowerOn' = TRUE
  /\ pc' = "L262"
  /\ UNCHANGED <<mainFrame, idxOfNextLcdRead, gestureVars, irqVars, outVars, led>>

\* line 262
AttachLcd ==
  /\ pc = "L262"
  /\ lcdAttached' = TRUE
  /\ pc' = "L263"
  /\ UNCHANGED <<mainFrame, usdxPowerOn, idxOfNextLcdRead, gestureVars, pwrAttached,
                 outVars, led>>

\* line 263
AttachPower ==
  /\ pc = "L263"
  /\ pwrAttached' = TRUE
  /\ pc' = "L266"
  /\ UNCHANGED <<mainFrame, usdxPowerOn, idxOfNextLcdRead, gestureVars, lcdAttached,
                 outVars, led>>

\* line 266: the service loop's test
ServiceTest ==
  /\ pc = "L266"
  /\ pc' = IF usdxPowerOn \/ idxOfNextLcdRead # idxOfNextLcdWrite THEN "L268" ELSE "L288"
  /\ UNCHANGED <<mainFrame, usdxPowerOn, idxOfNextLcdRead, gestureVars, irqVars, outVars,
                 led>>

\* line 268
DrainTest ==
  /\ pc = "L268"
  /\ pc' = IF idxOfNextLcdRead # idxOfNextLcdWrite THEN "L269" ELSE "L273"
  /\ UNCHANGED <<mainFrame, usdxPowerOn, idxOfNextLcdRead, gestureVars, irqVars, outVars,
                 led>>

\* C1 mutant: line 269 reading the newest byte instead of the oldest
DrainWriteNewest ==
  LET i == BitAnd(idxOfNextLcdWrite + BUFFER_INDEX_MASK, BUFFER_INDEX_MASK) IN
  /\ pc = "L269"
  /\ serialOut' = Append(serialOut, lcdBuffer[i])
  /\ outSrc' = Append(outSrc, slotSeq[i])
  /\ pc' = "L270"
  /\ UNCHANGED <<mainFrame, usdxPowerOn, idxOfNextLcdRead, gestureVars, irqVars, ctrlLog,
                 led>>

\* line 269
DrainWrite ==
  /\ pc = "L269"
  /\ serialOut' = Append(serialOut, lcdBuffer[idxOfNextLcdRead])
  /\ outSrc' = Append(outSrc, slotSeq[idxOfNextLcdRead])
  /\ pc' = "L270"
  /\ UNCHANGED <<mainFrame, usdxPowerOn, idxOfNextLcdRead, gestureVars, irqVars, ctrlLog,
                 led>>

\* line 270
DrainAdvance ==
  /\ pc = "L270"
  /\ idxOfNextLcdRead' = BitAnd(idxOfNextLcdRead + 1, BUFFER_INDEX_MASK)
  /\ pc' = "L273"
  /\ UNCHANGED <<mainFrame, usdxPowerOn, gestureVars, irqVars, outVars, led>>

\* C5, C6 mutant: the test of line 273 without !gestureInProgress
gestureMayBeReadAlways == Len(rxQueue) > 0

\* line 273: !gestureInProgress && Serial.available() > 0
gestureMayBeRead == ~gestureInProgress /\ Len(rxQueue) > 0

\* lines 273-276.  A click or a rotation reads millis() when it starts; doUsdxReset
\* stores millis() at line 181 and clears it at line 183 unread.
PollGesture ==
  /\ pc = "L273"
  /\ IF gestureMayBeRead
       THEN /\ rxQueue' = Tail(rxQueue)
            /\ IF Head(rxQueue) = RESET_THE_USDX
                 THEN /\ ClockNotRead
                      /\ doUsdxReset
                 ELSE /\ IF Head(rxQueue) \in CLICK_LEFT_BUTTON .. ROTATE_ENCODER_COUNTERCLOCKWISE
                           THEN ClockRead
                           ELSE ClockNotRead
                      /\ performInputGesture(Head(rxQueue))
                      /\ pc' = "L278"
                      /\ UNCHANGED <<lcdBuffer, idxOfNextLcdWrite, idxOfNextLcdRead,
                                     ghostCapture, led, irqVars, usdxPowerOn>>
       ELSE /\ ClockNotRead
            /\ pc' = "L278"
            /\ UNCHANGED <<rxQueue, lcdBuffer, idxOfNextLcdWrite, idxOfNextLcdRead,
                           ghostCapture, led, irqVars, usdxPowerOn, gestureVars>>
  /\ UNCHANGED <<powerLine, lcdLeft, rxLeft, pwrLeft, peerBytes, maxAdvance, outVars>>

\* lines 278-280
ButtonStep ==
  /\ pc = "L278"
  /\ IF clickInProgress
       THEN ClockRead /\ ButtonEmulate
       ELSE ClockNotRead /\ UNCHANGED <<buttonVars, pinVars, gestureInProgress>>
  /\ pc' = "L282"
  /\ UNCHANGED <<loopFrame, usdxPowerOn, idxOfNextLcdRead, encoderVars, irqVars, outVars,
                 led>>

\* lines 282-284
EncoderStep ==
  /\ pc = "L282"
  /\ IF rotationInProgress
       THEN ClockRead /\ EncoderEmulate
       ELSE ClockNotRead /\ UNCHANGED <<encoderVars, pinVars, gestureInProgress>>
  /\ pc' = "L266"
  /\ UNCHANGED <<loopFrame, usdxPowerOn, idxOfNextLcdRead, buttonVars, irqVars, outVars,
                 led>>

\* line 288
DetachPower ==
  /\ pc = "L288"
  /\ pwrAttached' = FALSE
  /\ pc' = "L289"
  /\ UNCHANGED <<mainFrame, usdxPowerOn, idxOfNextLcdRead, gestureVars, lcdAttached,
                 outVars, led>>

\* line 289
DetachLcd ==
  /\ pc = "L289"
  /\ lcdAttached' = FALSE
  /\ pc' = "L291"
  /\ UNCHANGED <<mainFrame, usdxPowerOn, idxOfNextLcdRead, gestureVars, pwrAttached,
                 outVars, led>>

\* line 291, and the return from loop()
SendPoweredDown ==
  /\ pc = "L291"
  /\ sendControlMessage(USDX_POWERED_DOWN)
  /\ pc' = "L250"
  /\ UNCHANGED <<mainFrame, usdxPowerOn, idxOfNextLcdRead, gestureVars, irqVars, led>>

MainStep ==
  \/ CheckPower
  \/ WaitPowerUp
  \/ SetPowerOn
  \/ AttachLcd
  \/ AttachPower
  \/ ServiceTest
  \/ DrainTest
  \/ DrainWrite
  \/ DrainAdvance
  \/ PollGesture
  \/ ResetRelease
  \/ ResetRearm
  \/ ResetLedOff
  \/ ButtonStep
  \/ EncoderStep
  \/ DetachPower
  \/ DetachLcd
  \/ SendPoweredDown

\* ------------------------------------------------------------ the environment
\* a falling edge of LCD_ENABLE while its interrupt is armed
LcdStrobe ==
  /\ lcdAttached
  /\ lcdLeft > 0
  /\ lcdLeft' = lcdLeft - 1
  /\ \E portd \in BusBytes : lcdActivityISR(portd)
  /\ UNCHANGED <<pc, usdxPowerOn, idxOfNextLcdRead, gestureVars, irqVars, powerLine, now,
                 rxQueue, rxLeft, pwrLeft, peerBytes, maxAdvance, outVars, resetMark, resets>>

\* the host is switched on
PowerRises ==
  /\ powerLine = LOW
  /\ pwrLeft > 0
  /\ pwrLeft' = pwrLeft - 1
  /\ powerLine' = HIGH
  /\ UNCHANGED <<pc, usdxPowerOn, captureVars, idxOfNextLcdRead, gestureVars, irqVars, led,
                 now, rxQueue, lcdLeft, rxLeft, peerBytes, maxAdvance, outVars, resetMark, resets>>

\* the host is switched off: a falling edge of LCD_POWER
PowerFalls ==
  /\ powerLine = HIGH
  /\ pwrLeft > 0
  /\ pwrLeft' = pwrLeft - 1
  /\ powerLine' = LOW
  /\ IF pwrAttached THEN usdxPowerDownISR ELSE UNCHANGED usdxPowerOn
  /\ UNCHANGED <<pc, captureVars, idxOfNextLcdRead, gestureVars, irqVars, led,
                 now, rxQueue, lcdLeft, rxLeft, peerBytes, maxAdvance, outVars, resetMark, resets>>

\* the serial peer sends a byte
SerialArrives ==
  /\ rxLeft > 0
  /\ rxLeft' = rxLeft - 1
  /\ \E gesture \in peerBytes : rxQueue' = Append(rxQueue, gesture)
  /\ UNCHANGED <<pc, usdxPowerOn, captureVars, idxOfNextLcdRead, gestureVars, irqVars, led,
                 powerLine, now, lcdLeft, pwrLeft, peerBytes, maxAdvance, outVars, resetMark, resets>>

\* ------------------------------------------------------------ specifications
\* the state when setup() has returned
InitProgram ==
  /\ pc = "L250"
  /\ usdxPowerOn = FALSE
  /\ lcdBuffer = [i \in 0 .. BUFFER_SIZE - 1 |-> 0]
  /\ idxOfNextLcdWrite = 0
  /\ idxOfNextLcdRead = 0
  /\ gestureInProgress = FALSE
  /\ timeOfClickStart = 0
  /\ pinOfButtonClicked = 0
  /\ stateTime = 0
  /\ state = ENC_STATE_IDLE
  /\ firstPin = 0
  /\ secondPin = 0
  /\ pinModeOf = [p \in Pins |-> IF p = USDX_RESET THEN "OUTPUT" ELSE "INPUT"]
  /\ pinLevel = [p \in Pins |-> LOW]
  /\ led = LOW
  /\ lcdAttached = FALSE
  /\ pwrAttached = FALSE
  /\ rxQueue = <<>>
  /\ serialOut = <<>>
  /\ outSrc = <<>>
  /\ ctrlLog = <<>>
  /\ captured = <<>>
  /\ slotSeq = [i \in 0 .. BUFFER_SIZE - 1 |-> 0]
  /\ ledRaises = 0
  /\ laps = 0
  /\ resetMark = 0
  /\ resets = 0
  /\ pressAge = 0
  /\ phaseAge = 0

Next ==
  \/ MainStep
  \/ LcdStrobe
  \/ PowerRises
  \/ PowerFalls
  \/ SerialArrives

\* The host may be on or off when the firmware starts.
\* Spec follows the capture pipeline: MaxCaptures strobes, one power edge, and a peer
\* that may send one ResetHost.
Init ==
  /\ InitProgram
  /\ powerLine \in {LOW, HIGH}
  /\ lcdLeft = MaxCaptures
  /\ rxLeft = 1
  /\ pwrLeft = 1
  /\ peerBytes = {RESET_THE_USDX}
  /\ maxAdvance = MillisModulus - 1
  /\ now = 0

Spec == Init /\ [][Next]_vars

\* The main loop keeps running: loop() is called again whenever it returns, and none of
\* its statements blocks but the busy wait of line 253.
FairSpec == Spec /\ WF_vars(MainStep)

\* SpecGesture follows the gesture code: MaxGestures bytes of any value, one strobe, one
\* power edge.
InitGesture ==
  /\ InitProgram
  /\ powerLine \in {LOW, HIGH}
  /\ lcdLeft = 1
  /\ rxLeft = MaxGestures
  /\ pwrLeft = 1
  /\ peerBytes = GestureBytes
  /\ maxAdvance = MillisModulus - 1
  /\ now = 0

SpecGesture == InitGesture /\ [][Next]_vars

\* SpecPower follows the power monitor: MaxPowerEdges edges of the power-sense line, one
\* strobe, and a peer that may send one ResetHost.
InitPower ==
  /\ InitProgram
  /\ powerLine \in {LOW, HIGH}
  /\ lcdLeft = 1
  /\ rxLeft = 1
  /\ pwrLeft = MaxPowerEdges
  /\ peerBytes = {RESET_THE_USDX}
  /\ maxAdvance = MillisModulus - 1
  /\ now = 0

SpecPower == InitPower /\ [][Next]_vars

FairPower == SpecPower /\ WF_vars(MainStep)

\* a call of millis() that finds the clock advanced
ClockAdvances == MainStep /\ now' # now

\* SpecSteady follows one gesture to its end: the main loop keeps running, it calls
\* millis() at least once per millisecond (maxAdvance = 1), and the clock keeps advancing.
\* The clock, read for the first time when the gesture starts, may then show any value.
InitSteady ==
  /\ InitProgram
  /\ powerLine \in {LOW, HIGH}
  /\ lcdLeft = 1
  /\ rxLeft = 1
  /\ pwrLeft = 1
  /\ peerBytes = {CLICK_LEFT_BUTTON, ROTATE_ENCODER_CLOCKWISE, RESET_THE_USDX}
  /\ maxAdvance = 1
  /\ now \in 0 .. MillisModulus - 1

SpecSteady ==
  InitSteady /\ [][Next]_vars /\ WF_vars(MainStep) /\ SF_vars(ClockAdvances)

\* ------------------------------------------------------------ the link and the buffer, as seen from outside
\* the bytes written from the capture buffer, each with the number of its capture
DataOut ==
  SelectSeq([i \in 1 .. Len(serialOut) |-> <<serialOut[i], outSrc[i]>>],
            LAMBDA e : e[2] > 0)

\* the captures that have been written to the serial link
Sent == {outSrc[i] : i \in 1 .. Len(outSrc)} \ {0}

\* the slots between the read index and the write index
Window == {BitAnd(idxOfNextLcdRead + n, BUFFER_INDEX_MASK) : n \in 0 .. UnreadCount - 1}

\* captures that are neither sent, nor discarded by a ResetHost, nor waiting to be read
LostToOverflow ==
  {k \in resetMark + 1 .. Len(captured) :
     /\ k \notin Sent
     /\ \A i \in Window : slotSeq[i] # k}

\* the unread bytes never reached BUFFER_SIZE and no ResetHost was executed
NoLoss == laps = 0 /\ resets = 0

InService == pc \in {"L266", "L268", "L269", "L270", "L273", "L278", "L282", "L183", "L186", "L187"}

\* ------------------------------------------------------------ claims

\* C1: while the unread bytes never reach BUFFER_SIZE and no ResetHost runs, the bytes
\* written to the serial link from the capture buffer are the bytes lcdActivityISR
\* sampled: the i-th one written is the i-th one captured, unmodified, each once; and a
\* captured byte is eventually written while the service loop runs.
C1_CaptureOrder ==
  NoLoss =>
    /\ Len(DataOut) <= Len(captured)
    /\ \A i \in 1 .. Len(DataOut) : DataOut[i] = <<captured[i], i>>

C1_EventuallySent ==
  \A k \in 1 .. MaxCaptures :
    (InService /\ NoLoss /\ Len(captured) >= k) ~> (Len(DataOut) >= k \/ ~NoLoss)

C1_CaptureFifo == []C1_CaptureOrder /\ C1_EventuallySent

\* every budgeted strobe was captured and written, both bus values among them, with
\* two bytes waiting in the buffer at some point (the last write found the buffer empty
\* again)
C1_Witness ==
  /\ NoLoss
  /\ Len(DataOut) = MaxCaptures
  /\ {captured[i] : i \in 1 .. Len(captured)} = BusBytes
  /\ idxOfNextLcdRead = idxOfNextLcdWrite
  /\ idxOfNextLcdRead = BitAnd(MaxCaptures, BUFFER_INDEX_MASK)

\* C2 (the claim as stated): on overflow only the overwritten bytes are lost; every
\* other unread byte is still written, before any byte captured after it.
C2_OnlyOverwrittenLost ==
  \A k \in resetMark + 1 .. Len(captured) :
    (k \notin Sent /\ \E j \in Sent : j > k) => \A i \in 0 .. BUFFER_SIZE - 1 : slotSeq[i] # k

\* C3: a byte is lost to overflow only after lcdActivityISR raised the indicator at the
\* write that made the write index equal the read index, one raise per such write and
\* at most BUFFER_SIZE bytes lost per raise; the handler always stores the byte and
\* advances the write index.
C3_LostOnlyAfterRaise ==
  /\ LostToOverflow # {} => ledRaises >= 1
  /\ Cardinality(LostToOverflow) <= BUFFER_SIZE * ledRaises

C3_HandlerStep ==
  captured' # captured =>
    /\ lcdBuffer'[idxOfNextLcdWrite] = captured'[Len(captured')]
    /\ idxOfNextLcdWrite' = (idxOfNextLcdWrite + 1) % BUFFER_SIZE
    /\ idxOfNextLcdRead' = idxOfNextLcdRead
    /\ IF idxOfNextLcdWrite' = idxOfNextLcdRead
         THEN led' = HIGH /\ ledRaises' = ledRaises + 1
         ELSE led' = led /\ ledRaises' = ledRaises

C3_OverflowSignalled == []C3_LostOnlyAfterRaise /\ [][C3_HandlerStep]_vars

\* a whole buffer was lost to one lap, and the byte captured after it was written
C3_Witness ==
  /\ ledRaises = 1
  /\ Cardinality(LostToOverflow) = BUFFER_SIZE
  /\ Len(captured) \in Sent

\* C10 (the claim as stated): when PoweredDown is written, both interrupts are disarmed
\* and the capture buffer holds no unsent byte.
C10_PoweredDownAfterFlush ==
  pc = "L291" =>
    /\ ~lcdAttached
    /\ ~pwrAttached
    /\ idxOfNextLcdRead = idxOfNextLcdWrite

ButtonPins == {LEFT_BUTTON, RIGHT_BUTTON, ENCODER_BUTTON}

PushToTalkEngaged == pinModeOf[PUSH_TO_TALK] = "OUTPUT" /\ pinLevel[PUSH_TO_TALK] = LOW

emulatorVars == <<timeOfClickStart, pinOfButtonClicked, stateTime, state, firstPin, secondPin>>

\* the main loop executes lines 273-276
Polls == pc = "L273" /\ pc' # pc

\* C4 (the claim as stated): a byte outside 1..8 is ignored: when it has been read,
\* GestureInProgress is false and no pin and no emulator state has changed.
C4_UnknownByteStep ==
  (Polls /\ rxQueue' # rxQueue /\ Head(rxQueue) \notin CLICK_LEFT_BUTTON .. RESET_THE_USDX) =>
    /\ gestureInProgress' = FALSE
    /\ UNCHANGED <<pinVars, emulatorVars>>

C4_UnknownByteIgnored == [][C4_UnknownByteStep]_vars

\* C5 (the claim as stated): at most one of click active, rotation active, push-to-talk
\* engaged.
C5_AtMostOneOfThree ==
  /\ ~(clickInProgress /\ rotationInProgress)
  /\ ~(clickInProgress /\ PushToTalkEngaged)
  /\ ~(rotationInProgress /\ PushToTalkEngaged)

\* C5 (amended): a button click and an encoder rotation are never active together;
\* push-to-talk may stay engaged while either is active.
C5_ClickOrRotation == ~(clickInProgress /\ rotationInProgress)

\* a left-button click is active while push-to-talk is engaged
C5_Witness ==
  /\ PushToTalkEngaged
  /\ pinOfButtonClicked = LEFT_BUTTON
  /\ gestureInProgress

\* C6: a byte is read from the serial link only at line 274, with GestureInProgress
\* false, one byte per read and from the head of the queue; while GestureInProgress is
\* true the poll leaves the queue, the pins and the emulators as they are; the gesture
\* started is the one at the head.
C6_ReadStep ==
  /\ (\A g \in GestureBytes : rxQueue' # Append(rxQueue, g)) /\ rxQueue' # rxQueue =>
       /\ Polls
       /\ ~gestureInProgress
       /\ rxQueue' = Tail(rxQueue)
  /\ Polls /\ gestureInProgress =>
       /\ rxQueue' = rxQueue
       /\ UNCHANGED <<pinVars, emulatorVars, gestureInProgress>>
  /\ Polls /\ rxQueue' # rxQueue =>
       /\ Head(rxQueue) = CLICK_LEFT_BUTTON => pinOfButtonClicked' = LEFT_BUTTON
       /\ Head(rxQueue) = CLICK_RIGHT_BUTTON => pinOfButtonClicked' = RIGHT_BUTTON
       /\ Head(rxQueue) = CLICK_ENCODER_BUTTON => pinOfButtonClicked' = ENCODER_BUTTON
       /\ Head(rxQueue) = ROTATE_ENCODER_CLOCKWISE => firstPin' = ROT_A /\ state' = ENC_STATE_1
       /\ Head(rxQueue) = ROTATE_ENCODER_COUNTERCLOCKWISE => firstPin' = ROT_B /\ state' = ENC_STATE_1
       /\ Head(rxQueue) = PUSH_TO_TALK_START => pinModeOf'[PUSH_TO_TALK] = "OUTPUT"
       /\ Head(rxQueue) = PUSH_TO_TALK_END => pinModeOf'[PUSH_TO_TALK] = "INPUT"
       /\ Head(rxQueue) = RESET_THE_USDX => pinOfButtonClicked' = USDX_RESET

C6_Backpressure == [][C6_ReadStep]_vars

\* a second byte waits in the queue while the rotation the first byte started is in its
\* last phase
C6_Witness ==
  /\ state = ENC_STATE_3
  /\ gestureInProgress
  /\ rxQueue = <<CLICK_RIGHT_BUTTON>>
  /\ rxLeft = 0

\* C7 (the claim as stated): a click takes its pin input -> output at the pressed level
\* -> output at the released level -> input, and the pin stays at the pressed level for
\* at least PULSE_DURATION.
C7_ClickStep ==
  /\ pinOfButtonClicked = 0 /\ pinOfButtonClicked' \in ButtonPins =>
       /\ pinModeOf[pinOfButtonClicked'] = "INPUT"
       /\ pinModeOf'[pinOfButtonClicked'] = "OUTPUT"
       /\ pinLevel'[pinOfButtonClicked'] = HIGH
  /\ pinOfButtonClicked \in ButtonPins /\ pinOfButtonClicked' = pinOfButtonClicked =>
       /\ pinModeOf'[pinOfButtonClicked] = "OUTPUT"
       /\ pinLevel'[pinOfButtonClicked] = HIGH
  /\ pinOfButtonClicked \in ButtonPins /\ pinOfButtonClicked' # pinOfButtonClicked =>
       /\ pinOfButtonClicked' = 0
       /\ pinModeOf'[pinOfButtonClicked] = "INPUT"
       /\ pinLevel'[pinOfButtonClicked] = LOW
       /\ Aged(pressAge) >= PULSE_DURATION

C7_ClickPulse == [][C7_ClickStep]_vars

\* C8: a rotation goes Idle -> Phase1 -> Phase2 -> Phase3 -> Idle, byte 4 with ROT_A
\* first and byte 5 with ROT_B first; the pins are (first low, second input), (both low),
\* (first input, second low), (both input); each phase lasts at least PULSE_DURATION;
\* GestureInProgress is true from the start and becomes false at Phase3 -> Idle.
C8_PhasePins ==
  /\ state = ENC_STATE_1 =>
       /\ pinModeOf[firstPin] = "OUTPUT" /\ pinLevel[firstPin] = LOW
       /\ pinModeOf[secondPin] = "INPUT"
  /\ state = ENC_STATE_2 =>
       /\ pinModeOf[firstPin] = "OUTPUT" /\ pinLevel[firstPin] = LOW
       /\ pinModeOf[secondPin] = "OUTPUT" /\ pinLevel[secondPin] = LOW
  /\ state = ENC_STATE_3 =>
       /\ pinModeOf[firstPin] = "INPUT"
       /\ pinModeOf[secondPin] = "OUTPUT" /\ pinLevel[secondPin] = LOW
  /\ state = ENC_STATE_IDLE => pinModeOf[ROT_A] = "INPUT" /\ pinModeOf[ROT_B] = "INPUT"
  /\ state # ENC_STATE_IDLE => gestureInProgress

C8_PhaseStep ==
  state' # state =>
    /\ state' = (state + 1) % 4
    /\ gestureInProgress' = (state' # ENC_STATE_IDLE)
    /\ state # ENC_STATE_IDLE =>
         /\ Aged(phaseAge) >= PULSE_DURATION
         /\ firstPin' = firstPin /\ secondPin' = secondPin
    /\ state = ENC_STATE_IDLE =>
         \/ /\ Head(rxQueue) = ROTATE_ENCODER_CLOCKWISE
            /\ firstPin' = ROT_A /\ secondPin' = ROT_B
         \/ /\ Head(rxQueue) = ROTATE_ENCODER_COUNTERCLOCKWISE
            /\ firstPin' = ROT_B /\ secondPin' = ROT_A

C8_RotationPhases == []C8_PhasePins /\ [][C8_PhaseStep]_vars

\* a counterclockwise rotation has gone through its three phases and is back at Idle
C8_Witness ==
  /\ state = ENC_STATE_IDLE
  /\ firstPin = ROT_B
  /\ secondPin = ROT_A
  /\ ~gestureInProgress

\* C9: neither encoder pin is ever an output at HIGH, and a step of a rotation changes
\* the mode and level of no pin but its two.
C9_NeverDrivenHigh ==
  \A p \in {ROT_A, ROT_B} : ~(pinModeOf[p] = "OUTPUT" /\ pinLevel[p] = HIGH)

C9_RotationFrame ==
  state' # state =>
    \A p \in Pins \ {firstPin', secondPin'} :
      pinModeOf'[p] = pinModeOf[p] /\ pinLevel'[p] = pinLevel[p]

C9_EncoderPins == []C9_NeverDrivenHigh /\ [][C9_RotationFrame]_vars

\* both encoder pins are driven low while push-to-talk is engaged
C9_Witness ==
  /\ state = ENC_STATE_2
  /\ pinModeOf[ROT_A] = "OUTPUT"
  /\ pinModeOf[ROT_B] = "OUTPUT"
  /\ PushToTalkEngaged

\* the address nibble a byte [0 0 B3 RS 0 B2 B1 B0] of the link carries
Nibble(b) == BitAnd(b, 32) \div 4 + BitAnd(b, 7)

\* the display command a byte pair of the link carries
DecodeFrame(b1, b2) == 16 * Nibble(b1) + Nibble(b2)

\* C11: sendControlMessage appends exactly two bytes, ((v & 0x80) >> 2) | ((v & 0x70) >> 4)
\* and ((v & 0x08) << 2) | (v & 0x07), both with bits 7, 6 and 4 clear; decoding them
\* gives 0x80|127 for PoweredUp and 0x80|126 for PoweredDown; and no command 0x80|a with
\* a in 0..103 encodes to the pair written.
C11_FrameStep ==
  ctrlLog' # ctrlLog =>
    LET v == ctrlLog'[Len(ctrlLog')]
        n == Len(serialOut)
        b1 == serialOut'[n + 1]
        b2 == serialOut'[n + 2]
    IN /\ Len(ctrlLog') = Len(ctrlLog) + 1
       /\ Len(serialOut') = n + 2
       /\ SubSeq(serialOut', 1, n) = serialOut
       /\ b1 = BitAnd(v, 128) \div 4 + BitAnd(v, 112) \div 16
       /\ b2 = BitAnd(v, 8) * 4 + BitAnd(v, 7)
       /\ BitAnd(b1, 208) = 0 /\ BitAnd(b2, 208) = 0
       /\ DecodeFrame(b1, b2) = v
       /\ v \in {128 + 127, 128 + 126}
       /\ (v = 128 + 127) = (pc = "L253")
       /\ \A a \in 0 .. 103 : <<ControlByte1(128 + a), ControlByte2(128 + a)>> # <<b1, b2>>

C11_ControlFrames == [][C11_FrameStep]_vars

\* a PoweredUp frame and a PoweredDown frame have been written, with no data byte between
C11_Witness ==
  /\ ctrlLog = <<USDX_POWERED_UP, USDX_POWERED_DOWN>>
  /\ serialOut = <<39, 39, 39, 38>>

\* a ResetHost is dispatched at line 275
ResetStarts == Polls /\ rxQueue' # rxQueue /\ Head(rxQueue) = RESET_THE_USDX

\* doUsdxReset returns
ResetReturns == pc = "L187" /\ pc' # pc

\* C12 (the parts that hold): ResetHost disarms the display-bus interrupt, zeroes both
\* indices and drives the reset pin low; then releases the pin; then re-arms the interrupt
\* with the buffer empty; nothing is captured between the disarm and the re-arm; and no
\* byte captured before the reset is written to the link after it.
C12_ResetOrder ==
  /\ ResetStarts =>
       /\ lcdAttached' = FALSE
       /\ idxOfNextLcdRead' = 0 /\ idxOfNextLcdWrite' = 0
       /\ pinModeOf'[USDX_RESET] = "OUTPUT" /\ pinLevel'[USDX_RESET] = LOW
       /\ pc' = "L183"
  /\ pc = "L183" /\ pc' # pc =>
       /\ pinModeOf'[USDX_RESET] = "INPUT"
       /\ lcdAttached' = FALSE
       /\ pc' = "L186"
  /\ pc = "L186" /\ pc' # pc =>
       /\ lcdAttached' = TRUE
       /\ idxOfNextLcdRead' = 0 /\ idxOfNextLcdWrite' = 0
       /\ pc' = "L187"
  /\ pc \in {"L183", "L186"} =>
       /\ ~lcdAttached
       /\ UNCHANGED <<captured, lcdBuffer, idxOfNextLcdRead, idxOfNextLcdWrite>>
  /\ outSrc' # outSrc /\ outSrc'[Len(outSrc')] > 0 => outSrc'[Len(outSrc')] > resetMark

\* C12 (the claim as stated): as above, and when doUsdxReset returns the buffer is empty
\* with both indices zero, GestureInProgress is false and no click is active.
C12_EmptyOnReturn ==
  ResetReturns =>
    /\ idxOfNextLcdRead' = 0 /\ idxOfNextLcdWrite' = 0
    /\ ~gestureInProgress'
    /\ pinOfButtonClicked' = 0

C12_ResetSynchronous == [][C12_ResetOrder /\ C12_EmptyOnReturn]_vars

\* C12 (amended): the buffer is empty at the re-arm; when doUsdxReset returns the read
\* index is zero, the write index counts (modulo BUFFER_SIZE) the bytes captured after the
\* re-arm and the buffer holds only such bytes, GestureInProgress is false and no click is
\* active.
C12_FreshOnReturn ==
  ResetReturns =>
    /\ idxOfNextLcdRead' = 0
    /\ \A i \in 0 .. idxOfNextLcdWrite' - 1 : slotSeq'[i] > resetMark'
    /\ idxOfNextLcdWrite' = (Len(captured') - resetMark') % BUFFER_SIZE
    /\ ~gestureInProgress'
    /\ pinOfButtonClicked' = 0

C12_ResetDiscards == [][C12_ResetOrder /\ C12_FreshOnReturn]_vars

\* a ResetHost discarded an unsent capture, and a byte captured after it has been written
C12_Witness ==
  /\ resets = 1
  /\ resetMark >= 1
  /\ resetMark \notin Sent
  /\ Len(captured) > resetMark
  /\ Len(captured) \in Sent

\* the byte the main loop reads at line 274 in this step (0 .. 9), or -1 if it reads none
ByteRead == IF Polls /\ rxQueue' # rxQueue THEN Head(rxQueue) ELSE -1

\* C13: byte 6 leaves PUSH_TO_TALK an output at LOW, byte 7 leaves it an input, and no
\* other step of the program changes the pin; the step that executes either byte ends
\* with GestureInProgress false, at line 278 of the same iteration.
C13_PttStep ==
  /\ ByteRead = PUSH_TO_TALK_START =>
       /\ pinModeOf'[PUSH_TO_TALK] = "OUTPUT" /\ pinLevel'[PUSH_TO_TALK] = LOW
       /\ ~gestureInProgress' /\ pc' = "L278"
  /\ ByteRead = PUSH_TO_TALK_END =>
       /\ pinModeOf'[PUSH_TO_TALK] = "INPUT"
       /\ ~gestureInProgress' /\ pc' = "L278"
  /\ ByteRead \notin {PUSH_TO_TALK_START, PUSH_TO_TALK_END} =>
       /\ pinModeOf'[PUSH_TO_TALK] = pinModeOf[PUSH_TO_TALK]
       /\ pinLevel'[PUSH_TO_TALK] = pinLevel[PUSH_TO_TALK]

C13_PttLevel == pinModeOf[PUSH_TO_TALK] = "OUTPUT" => pinLevel[PUSH_TO_TALK] = LOW

C13_PushToTalkHeld == []C13_PttLevel /\ [][C13_PttStep]_vars

\* push-to-talk is still engaged in the last phase of a clockwise rotation started after it
C13_Witness ==
  /\ PushToTalkEngaged
  /\ state = ENC_STATE_3
  /\ firstPin = ROT_A

\* C14 (the claim as stated): with the main loop scheduled fairly and the clock advancing,
\* a started click reaches endClick and a started rotation returns to Idle, each with
\* GestureInProgress cleared, whatever the interrupts do.
C14_RunsToCompletion ==
  /\ clickInProgress ~> (~clickInProgress /\ ~gestureInProgress)
  /\ rotationInProgress ~> (~rotationInProgress /\ ~gestureInProgress)

\* the main loop executes lines 278-280 with a click active: it calls Button::emulate
EmulatesClick == pc = "L278" /\ pc' # pc /\ clickInProgress

\* C15 (the claim as stated): Button::emulate performs endClick if and only if the
\* wrapping difference between the counter read now and the counter read at startClick
\* is at least PULSE_DURATION.
C15_EndsStep ==
  EmulatesClick =>
    (pinOfButtonClicked' = 0) = (WrapSub(now', timeOfClickStart) >= PULSE_DURATION)

C15_EndsIffElapsed == [][C15_EndsStep]_vars

\* C16 (the claim as stated): once lcdActivityISR has raised the overflow indicator, the
\* indicator is raised in every later state.
C16_IndicatorPersistent == ledRaises >= 1 => led = HIGH

\* C17 (the claim as stated): the control messages alternate, starting with PoweredUp.
C17_ControlAlternates ==
  \A i \in 1 .. Len(ctrlLog) :
    ctrlLog[i] = IF i % 2 = 1 THEN USDX_POWERED_UP ELSE USDX_POWERED_DOWN

\* the main loop is past its last reading of the power-sense pin, which read HIGH
ReadAsOn == pc \in {"L261", "L262", "L263"} \/ InService

\* C18 (the claim as stated): when the power-sense line has fallen after the firmware read
\* it as on, PowerState becomes false and PoweredDown is written (line 291 is reached
\* before the main loop can write another PoweredUp).
C18_FallNoticed == (ReadAsOn /\ powerLine = LOW) ~> (pc = "L291" /\ ~usdxPowerOn)

\* the main loop has left the service loop and has not yet read the host as on again
OutsideService == pc \in {"L288", "L289", "L291", "L250", "L253"}

\* C19 (the claim as stated): outside the service loop no button pin and no encoder pin
\* is an output, no click and no rotation is active, and GestureInProgress is false.
C19_IdleOutsideService ==
  OutsideService =>
    /\ \A p \in ButtonPins \cup {ROT_A, ROT_B} : pinModeOf[p] = "INPUT"
    /\ ~clickInProgress
    /\ ~rotationInProgress
    /\ ~gestureInProgress

\* C20: a click and a rotation are never active together, and while either is active
\* GestureInProgress is true.
C20_EmulatorHoldsFlag ==
  /\ ~(clickInProgress /\ rotationInProgress)
  /\ clickInProgress => gestureInProgress
  /\ rotationInProgress => gestureInProgress

\* a rotate byte waits in the queue while a right-button click is active
C20_Witness ==
  /\ pinOfButtonClicked = RIGHT_BUTTON
  /\ gestureInProgress
  /\ rxQueue = <<ROTATE_ENCODER_CLOCKWISE>>
  /\ pc = "L273"

=============================================================================
